---------------------------- MODULE Spec2Model ----------------------------
(***************************************************************************)
(* Model of the Liquidity Pool Manager contract (vault): pools, positions, *)
(* farmer rewards, zone statistics, the STX ledger the contract transfers  *)
(* on, and the chain height.  One action per public function; a call that  *)
(* returns (err ...) leaves the contract state as it was (the chain rolls  *)
(* a failed public call back), and only records the response in `last'.    *)
(*                                                                         *)
(* Amounts are uint (128 bit) in the contract.  An overflowing + or * and  *)
(* an underflowing - abort the call like a failed call; the amounts of the *)
(* model stay far below that width, so no such abort is reachable here.    *)
(***************************************************************************)
EXTENDS Integers, Sequences, FiniteSets, TLC

\* ------------------------------------------------------------------ bounds
MaxPools  == 1          \* pools created in a run
MaxTrades == 2          \* successful buys + sells in a run
MaxHeight == 3          \* last block height explored

\* ------------------------------------------------------------- principals
Contract   == "vault"
Farmers    == {"lpFarmer1", "lpFarmer2"}
Users      == {"user1", "user2"}
Principals == Farmers \cup Users

\* balance every wallet starts with (micro-STX)
InitialBalance == 20000000

\* ------------------------------------------------------- inputs of a run
\* <<initial-stx, initial-usdt, zone-count, zone-duration>>
PoolConfigs ==
  { <<10000000, 10000000, 3, 2>>,
    <<4, 40, 1, 1>>,
    <<0, 40, 1, 1>>, <<4, 0, 1, 1>>, <<4, 40, 0, 1>>, <<4, 40, 11, 1>>,
    <<4, 40, 1, 0>>, <<0, 40, 0, 1>> }
\* 30,000,000 is more than any wallet holds
BuyAmounts  == {0, 1, 100000, 200000, 30000000}
SellAmounts == {0, 1, 49000}
PoolIds     == 0 .. (MaxPools - 1)
BlockSteps  == {1}

\* -------------------------------------------------------- error constants
err_not_found              == 101
err_unauthorized           == 102
err_insufficient_balance   == 103
err_invalid_zone           == 105
err_zone_locked            == 106
err_insufficient_liquidity == 107
err_invalid_amount         == 108
err_pool_not_found         == 109
\* stx-transfer? : (err u1) when the sender's balance is too small
err_stx_insufficient       == 1

\* ------------------------------------------------- mock-usdt constants
err_not_token_owner        == 101     \* mock-usdt err-not-token-owner
token_err_invalid_amount   == 103     \* mock-usdt err-invalid-amount
err_faucet_cooldown        == 104
ft_err_insufficient        == 1       \* ft-transfer? (err u1)
ft_err_same_principal      == 2       \* ft-transfer? (err u2)
faucet_amount              == 10000000
faucet_cooldown            == 144
token_unit                 == 1000000 \* token-decimals u6
\* the supply, as whole tokens and millionths, so that the 10^12 millionths
\* minted at deployment stay within TLC's integers
initial_supply == [tokens |-> 1000000, micro |-> 0]

trading_fee  == 30
basis_points == 10000
max_zone_count == 10
farmer_pools_max_len == 100

VARIABLES
  pool_nonce,               \* data-var pool-nonce
  total_pools_created,      \* data-var total-pools-created
  liquidity_pools,          \* map pool-id -> pool record
  user_positions,           \* map <<pool-id, user>> -> position record
  farmer_rewards,           \* map <<pool-id, farmer>> -> rewards record
  zone_statistics,          \* map <<pool-id, zone>> -> statistics record
  user_zone_participation,  \* map <<pool-id, user, zone>> -> record
  farmer_pools,             \* map principal -> list of pool ids
  stx_balance,              \* STX ledger: principal or contract -> balance
  stacks_block_height,      \* chain height
  last,                     \* the last call and its response
  history,                  \* what the responses so far have shown
  ft_supply,                \* mock-usdt: total supply of the token
  ft_balance,               \* mock-usdt: principal -> token balance
  faucet_claims             \* mock-usdt: map principal -> last claim height

vars == << pool_nonce, total_pools_created, liquidity_pools, user_positions,
           farmer_rewards, zone_statistics, user_zone_participation,
           farmer_pools, stx_balance, stacks_block_height, last, history,
           ft_supply, ft_balance, faucet_claims >>

contractState == << pool_nonce, total_pools_created, liquidity_pools,
                    user_positions, farmer_rewards, zone_statistics,
                    user_zone_participation, farmer_pools, stx_balance >>

\* the state of the mock-usdt contract, which the vault never calls
tokenState == << ft_supply, ft_balance, faucet_claims >>

\* ------------------------------------------------------------ map helpers
MapHas(m, k) == k \in DOMAIN m

MapSet(m, k, v) == [x \in (DOMAIN m) \cup {k} |-> IF x = k THEN v ELSE m[x]]

EmptyMap == [x \in {} |-> 0]

\* ------------------------------------------------------ uint arithmetic
\* <<floor(a*b / c), (a*b) mod c>> by doubling, so that no intermediate
\* value leaves TLC's integer range although a*b does.
RECURSIVE MulDivQR(_, _, _)
MulDivQR(a, b, c) ==
  IF a = 0 THEN <<0, 0>>
  ELSE LET h == MulDivQR(a \div 2, b, c)
           t == 2 * h[2] + (a % 2) * b
       IN  <<2 * h[1] + (t \div c), t % c>>

\* (/ (* a b) c)
MulDiv(a, b, c) == MulDivQR(a, b, c)[1]

\* successful trades so far, over all pools
RECURSIVE TotalTrades(_, _)
TotalTrades(pools, n) ==
  IF n = 0 THEN 0
  ELSE pools[n - 1].total_transactions + TotalTrades(pools, n - 1)

\* ------------------------------------------------------ private functions
\* variant: the fee taken per thousand instead of per ten thousand
calculate_fee_per_thousand(amount) == (amount * trading_fee) \div 1000

calculate_fee(amount) == (amount * trading_fee) \div basis_points

calculate_zone_multiplier(zone) == 100 + zone * 50

calculate_user_reward(contribution, total_volume, zone, pool_fees) ==
  LET base_reward == MulDiv(contribution, pool_fees, total_volume)
      multiplier  == calculate_zone_multiplier(zone)
  IN  (base_reward * multiplier) \div 100

is_zone_unlocked(pools, pool_id, height) ==
  IF ~ MapHas(pools, pool_id) THEN FALSE
  ELSE height >= pools[pool_id].zone_unlock_time

\* variant: the zone advances whatever the height is
update_zone_if_needed_any_height(pools, pool_id, height) ==
  IF ~ MapHas(pools, pool_id) THEN pools
  ELSE LET pool == pools[pool_id] IN
       IF pool.current_zone < pool.zone_count
       THEN MapSet(pools, pool_id,
                   [pool EXCEPT !.current_zone = pool.current_zone + 1,
                                !.zone_unlock_time =
                                   pool.zone_unlock_time + pool.zone_duration])
       ELSE pools

\* the pools map after update-zone-if-needed
update_zone_if_needed(pools, pool_id, height) ==
  IF ~ MapHas(pools, pool_id) THEN pools
  ELSE LET pool == pools[pool_id] IN
       IF height >= pool.zone_unlock_time /\ pool.current_zone < pool.zone_count
       THEN MapSet(pools, pool_id,
                   [pool EXCEPT !.current_zone = pool.current_zone + 1,
                                !.zone_unlock_time =
                                   pool.zone_unlock_time + pool.zone_duration])
       ELSE pools

\* ------------------------------------------------------------ STX ledger
\* stx-transfer? amount from -> to; amounts reaching it are always > 0
stx_can_transfer(bal, amount, from) == bal[from] >= amount

stx_transfer(bal, amount, from, to) ==
  [bal EXCEPT ![from] = bal[from] - amount, ![to] = bal[to] + amount]

\* ------------------------------------------------------------- responses
Response(op, sender, args, ok, val) ==
  [op |-> op, sender |-> sender, args |-> args, ok |-> ok, val |-> val]

Fail(op, sender, args, code) ==
  /\ last' = Response(op, sender, args, FALSE, code)
  /\ UNCHANGED << contractState, stacks_block_height >>

\* variant: what a failing call had written stays written
rolled_back_keeping_writes(before, written) == written

\* a public call that returns (err ...) has its writes discarded by the
\* chain: the map is what it was before the call
rolled_back(before, written) == before

\* a failure after update-zone-if-needed has written the pools map
FailAfterZoneUpdate(op, sender, args, code, pools_written) ==
  /\ last' = Response(op, sender, args, FALSE, code)
  /\ liquidity_pools' = rolled_back(liquidity_pools, pools_written)
  /\ UNCHANGED << pool_nonce, total_pools_created, user_positions,
                  farmer_rewards, zone_statistics, user_zone_participation,
                  farmer_pools, stx_balance, stacks_block_height >>

\* unwrap-panic on none: the call aborts without a response value and
\* everything it wrote is rolled back
Panic(op, sender, args) == Fail(op, sender, args, 0)

\* ------------------------------------------------------------- history
\* `history' is kept by an observer of the calls, never read by the
\* contract: it is computed from the responses alone.
\*   recent    : <<pool-id, user>> -> the user's last successful
\*               "buy-usdt", "sell-usdt" or "claim-rewards" on the pool
\*   accrued   : pool-id -> fees of the successful trades since the last
\*               successful claim-farmer-rewards (or since creation)
\*   collected : pool-id -> fees of all successful trades on the pool
\*   created   : the successful creations, <<returned id, owner>>, in order
\*   custody   : pool-id -> the STX the successful calls on the pool have
\*               put into the contract, less the STX they took out of it
\*   initial   : pool-id -> <<initial-stx, initial-usdt>> of its creation
\*   reserves  : pool-id -> <<STX, USDT>> the pool holds by the amounts the
\*               successful trades took in and gave out
NoHistory ==
  [ recent |-> EmptyMap, accrued |-> EmptyMap, collected |-> EmptyMap,
    created |-> <<>>, custody |-> EmptyMap, initial |-> EmptyMap,
    reserves |-> EmptyMap ]

\* the fee of a trade of `amount', 0.3% rounded down
ObservedFee(amount) == (amount * 30) \div 10000

Observe(h, r) ==
  IF ~ r.ok THEN h
  ELSE IF r.op = "create-liquidity-pool"
       THEN [h EXCEPT !.created   = Append(@, <<r.val, r.sender>>),
                      !.accrued   = MapSet(@, r.val, 0),
                      !.collected = MapSet(@, r.val, 0),
                      !.custody   = MapSet(@, r.val, r.args[1]),
                      !.initial   = MapSet(@, r.val, <<r.args[1], r.args[2]>>),
                      !.reserves  = MapSet(@, r.val, <<r.args[1], r.args[2]>>)]
  ELSE IF r.op \in {"buy-usdt", "sell-usdt"}
       THEN LET p == r.args[1]  fee == ObservedFee(r.args[2]) IN
            [h EXCEPT !.recent    = MapSet(@, <<p, r.sender>>, r.op),
                      !.accrued   = MapSet(@, p, h.accrued[p] + fee),
                      !.collected = MapSet(@, p, h.collected[p] + fee),
                      !.custody   = MapSet(@, p,
                                           IF r.op = "buy-usdt"
                                           THEN h.custody[p] + r.args[2]
                                           ELSE h.custody[p] - r.val),
                      !.reserves  = MapSet(@, p,
                                           IF r.op = "buy-usdt"
                                           THEN <<h.reserves[p][1] + r.args[2],
                                                  h.reserves[p][2] - r.val>>
                                           ELSE <<h.reserves[p][1] - r.val,
                                                  h.reserves[p][2] + r.args[2]>>)]
  ELSE IF r.op = "claim-rewards"
       THEN [h EXCEPT !.recent  = MapSet(@, <<r.args[1], r.sender>>, r.op),
                      !.custody = MapSet(@, r.args[1],
                                         h.custody[r.args[1]] - r.val)]
  ELSE IF r.op = "claim-farmer-rewards"
       THEN [h EXCEPT !.accrued = MapSet(@, r.args[1], 0),
                      !.custody = MapSet(@, r.args[1],
                                         h.custody[r.args[1]] - r.val)]
  ELSE h

\* every step records the response it produced
Record == history' = Observe(history, last')

\* ------------------------------------------------------------------ Init
Init ==
  /\ pool_nonce = 0
  /\ total_pools_created = 0
  /\ liquidity_pools = EmptyMap
  /\ user_positions = EmptyMap
  /\ farmer_rewards = EmptyMap
  /\ zone_statistics = EmptyMap
  /\ user_zone_participation = EmptyMap
  /\ farmer_pools = EmptyMap
  /\ stx_balance = [p \in Principals \cup {Contract} |->
                      IF p = Contract THEN 0 ELSE InitialBalance]
  /\ stacks_block_height = 0
  /\ last = Response("deploy", Contract, <<>>, TRUE, 0)
  /\ history = NoHistory
  /\ ft_supply = initial_supply
  /\ ft_balance = [p \in Principals |-> 0]
  /\ faucet_claims = EmptyMap

\* ------------------------------------------------- create-liquidity-pool
\* variant: the first unlock is set to the creation height
new_pool_unlock_now(sender, initial_stx, initial_usdt, zone_count, zone_duration, height) ==
  [ lp_farmer          |-> sender,
    stx_reserve        |-> initial_stx,
    usdt_reserve       |-> initial_usdt,
    total_volume       |-> 0,
    total_transactions |-> 0,
    zone_count         |-> zone_count,
    current_zone       |-> 0,
    zone_unlock_time   |-> height,
    zone_duration      |-> zone_duration,
    created_at         |-> height,
    active             |-> TRUE ]

\* variant: the two initial amounts land in each other's reserve
new_pool_reserves_swapped(sender, initial_stx, initial_usdt, zone_count, zone_duration, height) ==
  [ lp_farmer          |-> sender,
    stx_reserve        |-> initial_usdt,
    usdt_reserve       |-> initial_stx,
    total_volume       |-> 0,
    total_transactions |-> 0,
    zone_count         |-> zone_count,
    current_zone       |-> 0,
    zone_unlock_time   |-> height + zone_duration,
    zone_duration      |-> zone_duration,
    created_at         |-> height,
    active             |-> TRUE ]

new_pool(sender, initial_stx, initial_usdt, zone_count, zone_duration, height) ==
  [ lp_farmer          |-> sender,
    stx_reserve        |-> initial_stx,
    usdt_reserve       |-> initial_usdt,
    total_volume       |-> 0,
    total_transactions |-> 0,
    zone_count         |-> zone_count,
    current_zone       |-> 0,
    zone_unlock_time   |-> height + zone_duration,
    zone_duration      |-> zone_duration,
    created_at         |-> height,
    active             |-> TRUE ]

\* (as-max-len? list n): <<list>> for (some list), <<>> for none
as_max_len(list, n) == IF Len(list) <= n THEN <<list>> ELSE <<>>

\* variant: the new id is put in front of the farmer's list
appended_pools_in_front(current_pools, pool_id) ==
  as_max_len(<<pool_id>> \o current_pools, farmer_pools_max_len)

\* variant: a full list is kept as it is and the new id dropped
appended_pools_dropping(current_pools, pool_id) ==
  IF Len(current_pools) < farmer_pools_max_len
  THEN <<Append(current_pools, pool_id)>>
  ELSE <<current_pools>>

\* (as-max-len? (append current-pools pool-id) u100)
appended_pools(current_pools, pool_id) ==
  as_max_len(Append(current_pools, pool_id), farmer_pools_max_len)

\* variant: no upper limit on zone-count
create_validation_no_zone_limit(initial_stx, initial_usdt, zone_count, zone_duration) ==
  IF ~ (initial_stx > 0) THEN err_invalid_amount
  ELSE IF ~ (initial_usdt > 0) THEN err_invalid_amount
  ELSE IF ~ (zone_count > 0) THEN err_invalid_zone
  ELSE IF ~ (zone_duration > 0) THEN err_invalid_zone
  ELSE 0

\* the validations of create-liquidity-pool in source order: 0 when all
\* pass, else the error code of the first that fails
create_validation(initial_stx, initial_usdt, zone_count, zone_duration) ==
  IF ~ (initial_stx > 0) THEN err_invalid_amount
  ELSE IF ~ (initial_usdt > 0) THEN err_invalid_amount
  ELSE IF ~ (zone_count > 0 /\ zone_count <= max_zone_count) THEN err_invalid_zone
  ELSE IF ~ (zone_duration > 0) THEN err_invalid_zone
  ELSE 0

create_liquidity_pool(sender, initial_stx, initial_usdt, zone_count, zone_duration) ==
  LET op   == "create-liquidity-pool"
      args == <<initial_stx, initial_usdt, zone_count, zone_duration>>
      pool_id == pool_nonce
      current_pools == IF MapHas(farmer_pools, sender)
                       THEN farmer_pools[sender] ELSE <<>>
      new_pools == appended_pools(current_pools, pool_id)
      check == create_validation(initial_stx, initial_usdt, zone_count,
                                 zone_duration)
  IN
     IF check # 0 THEN Fail(op, sender, args, check)
     ELSE IF ~ stx_can_transfer(stx_balance, initial_stx, sender)
          THEN Fail(op, sender, args, err_stx_insufficient)
     ELSE IF new_pools = <<>>
          THEN Panic(op, sender, args)
     ELSE
       /\ stx_balance' = stx_transfer(stx_balance, initial_stx, sender, Contract)
       /\ liquidity_pools' = MapSet(liquidity_pools, pool_id,
             new_pool(sender, initial_stx, initial_usdt, zone_count,
                      zone_duration, stacks_block_height))
       /\ farmer_rewards' = MapSet(farmer_rewards, <<pool_id, sender>>,
             [total_fees_earned |-> 0, last_claimed |-> stacks_block_height])
       /\ farmer_pools' = MapSet(farmer_pools, sender, new_pools[1])
       /\ pool_nonce' = pool_id + 1
       /\ total_pools_created' = total_pools_created + 1
       /\ last' = Response(op, sender, args, TRUE, pool_id)
       /\ UNCHANGED << user_positions, zone_statistics,
                       user_zone_participation, stacks_block_height >>

\* The model stops creating once MaxPools ids are allocated.
CreatePool ==
  /\ pool_nonce < MaxPools
  /\ \E sender \in Farmers, cfg \in PoolConfigs :
        create_liquidity_pool(sender, cfg[1], cfg[2], cfg[3], cfg[4])
  /\ Record /\ UNCHANGED tokenState

\* ---------------------------------------------------- read-only functions
\* get-pool-info on the pools map: <<record>> for (some record), <<>> for none
get_pool_info(pools, pool_id) ==
  IF MapHas(pools, pool_id) THEN <<pools[pool_id]>> ELSE <<>>

get_total_pools == total_pools_created

get_farmer_pools(farmer) ==
  IF MapHas(farmer_pools, farmer) THEN farmer_pools[farmer] ELSE <<>>

check_zone_unlocked(pool_id) ==
  is_zone_unlocked(liquidity_pools, pool_id, stacks_block_height)

\* estimate-user-reward: the response for `user' on `pool_id'
estimate_user_reward(pool_id, user) ==
  IF ~ MapHas(liquidity_pools, pool_id)
  THEN [ok |-> FALSE, val |-> err_pool_not_found]
  ELSE IF ~ MapHas(user_positions, <<pool_id, user>>)
  THEN [ok |-> FALSE, val |-> err_not_found]
  ELSE
  LET pool     == liquidity_pools[pool_id]
      position == user_positions[<<pool_id, user>>]
      total_volume == pool.total_volume
      current_zone == pool.current_zone
      user_contribution == position.stx_deposited + position.usdt_deposited
  IN  IF total_volume > 0
      THEN [ok |-> TRUE,
            val |-> calculate_user_reward(user_contribution, total_volume,
                                          current_zone, pool.total_volume)]
      ELSE [ok |-> TRUE, val |-> 0]

\* -------------------------------------------------------------- buy-usdt
default_position ==
  [ stx_deposited |-> 0, usdt_deposited |-> 0, rewards_earned |-> 0,
    last_interaction |-> 0, can_claim |-> FALSE ]

default_zone_stats ==
  [ total_buys |-> 0, total_sells |-> 0, volume |-> 0, unique_users |-> 0,
    rewards_distributed |-> 0 ]

\* variant: the reserve left out of the divisor
buy_usdt_out_no_reserve(pool, stx_amount) ==
  LET stx_after_fee == stx_amount - calculate_fee(stx_amount)
  IN  MulDiv(stx_after_fee, pool.usdt_reserve, stx_after_fee)

\* variant: the divisor takes the amount before the fee
buy_usdt_out_gross_divisor(pool, stx_amount) ==
  LET stx_after_fee == stx_amount - calculate_fee(stx_amount)
  IN  MulDiv(stx_after_fee, pool.usdt_reserve, pool.stx_reserve + stx_amount)

\* variant: the dividend takes the amount before the fee
buy_usdt_out_gross_dividend(pool, stx_amount) ==
  LET stx_after_fee == stx_amount - calculate_fee(stx_amount)
  IN  MulDiv(stx_amount, pool.usdt_reserve, pool.stx_reserve + stx_after_fee)

\* (/ (* stx-after-fee usdt-reserve) (+ stx-reserve stx-after-fee))
buy_usdt_out(pool, stx_amount) ==
  LET stx_after_fee == stx_amount - calculate_fee(stx_amount)
  IN  MulDiv(stx_after_fee, pool.usdt_reserve, pool.stx_reserve + stx_after_fee)

\* variant: the stored record also steps the zone, without the zone-count
\* check
buy_pool_record_zone_step(pool, stx_amount, usdt_out) ==
  [pool EXCEPT !.stx_reserve        = pool.stx_reserve + stx_amount,
               !.usdt_reserve       = pool.usdt_reserve - usdt_out,
               !.total_volume       = pool.total_volume + stx_amount,
               !.total_transactions = pool.total_transactions + 1,
               !.current_zone       = pool.current_zone + 1]

\* variant: the reserves move as in a sell
buy_pool_record_reversed(pool, stx_amount, usdt_out) ==
  [pool EXCEPT !.stx_reserve        = pool.stx_reserve - stx_amount,
               !.usdt_reserve       = pool.usdt_reserve + usdt_out,
               !.total_volume       = pool.total_volume + stx_amount,
               !.total_transactions = pool.total_transactions + 1]

\* the record buy-usdt stores: a merge into the pool read at the start of
\* the call
\* variant: total-volume counts the amount less the fee
buy_pool_record_volume_net_of_fee(pool, stx_amount, usdt_out) ==
  [pool EXCEPT !.stx_reserve        = pool.stx_reserve + stx_amount,
               !.usdt_reserve       = pool.usdt_reserve - usdt_out,
               !.total_volume       = pool.total_volume + stx_amount - calculate_fee(stx_amount),
               !.total_transactions = pool.total_transactions + 1]

buy_pool_record(pool, stx_amount, usdt_out) ==
  [pool EXCEPT !.stx_reserve        = pool.stx_reserve + stx_amount,
               !.usdt_reserve       = pool.usdt_reserve - usdt_out,
               !.total_volume       = pool.total_volume + stx_amount,
               !.total_transactions = pool.total_transactions + 1]

\* variant: a buy leaves can-claim as it was
buy_position_record_keep_claim(position, stx_amount, usdt_out, height) ==
  [position EXCEPT !.stx_deposited    = position.stx_deposited + stx_amount,
                   !.usdt_deposited   = position.usdt_deposited + usdt_out,
                   !.last_interaction = height]

buy_position_record(position, stx_amount, usdt_out, height) ==
  [position EXCEPT !.stx_deposited    = position.stx_deposited + stx_amount,
                   !.usdt_deposited   = position.usdt_deposited + usdt_out,
                   !.last_interaction = height,
                   !.can_claim        = FALSE]

\* variant: the fee of the trade replaces what had accrued
add_farmer_fee_overwriting(rewards, pool_id, pool, fee) ==
  LET k == <<pool_id, pool.lp_farmer>> IN
  MapSet(rewards, k, [rewards[k] EXCEPT !.total_fees_earned = fee])

add_farmer_fee(rewards, pool_id, pool, fee) ==
  LET k == <<pool_id, pool.lp_farmer>> IN
  MapSet(rewards, k,
         [rewards[k] EXCEPT !.total_fees_earned = rewards[k].total_fees_earned + fee])

\* variant: the amount is not compared with 0
buy_validation_no_amount(pool, stx_amount, usdt_out) ==
  IF ~ pool.active THEN err_pool_not_found
  ELSE IF ~ (usdt_out > 0) THEN err_insufficient_liquidity
  ELSE 0

\* the validations of buy-usdt in source order: 0 when all pass, else the
\* error code of the first that fails
buy_validation(pool, stx_amount, usdt_out) ==
  IF ~ pool.active THEN err_pool_not_found
  ELSE IF ~ (stx_amount > 0) THEN err_invalid_amount
  ELSE IF ~ (usdt_out > 0) THEN err_insufficient_liquidity
  ELSE 0

buy_usdt(sender, pool_id, stx_amount) ==
  LET op   == "buy-usdt"
      args == <<pool_id, stx_amount>>
  IN
  IF ~ MapHas(liquidity_pools, pool_id)
  THEN Fail(op, sender, args, err_pool_not_found)
  ELSE
  LET pool     == liquidity_pools[pool_id]
      fee      == calculate_fee(stx_amount)
      usdt_out == buy_usdt_out(pool, stx_amount)
      current_position ==
         IF MapHas(user_positions, <<pool_id, sender>>)
         THEN user_positions[<<pool_id, sender>>] ELSE default_position
      current_zone == pool.current_zone
      zone_stats ==
         IF MapHas(zone_statistics, <<pool_id, current_zone>>)
         THEN zone_statistics[<<pool_id, current_zone>>] ELSE default_zone_stats
      pools_zone == update_zone_if_needed(liquidity_pools, pool_id,
                                          stacks_block_height)
      check == buy_validation(pool, stx_amount, usdt_out)
  IN
  IF check # 0 THEN Fail(op, sender, args, check)
  ELSE IF ~ stx_can_transfer(stx_balance, stx_amount, sender)
       THEN FailAfterZoneUpdate(op, sender, args, err_stx_insufficient, pools_zone)
  ELSE IF ~ MapHas(farmer_rewards, <<pool_id, pool.lp_farmer>>)
       THEN FailAfterZoneUpdate(op, sender, args, err_not_found, pools_zone)
  ELSE
    /\ stx_balance' = stx_transfer(stx_balance, stx_amount, sender, Contract)
    /\ liquidity_pools' = MapSet(pools_zone, pool_id,
                                 buy_pool_record(pool, stx_amount, usdt_out))
    /\ user_positions' = MapSet(user_positions, <<pool_id, sender>>,
          buy_position_record(current_position, stx_amount, usdt_out,
                              stacks_block_height))
    /\ zone_statistics' = MapSet(zone_statistics, <<pool_id, current_zone>>,
          [zone_stats EXCEPT !.total_buys = zone_stats.total_buys + 1,
                             !.volume     = zone_stats.volume + stx_amount])
    /\ user_zone_participation' =
          MapSet(user_zone_participation, <<pool_id, sender, current_zone>>,
                 [participated |-> TRUE, volume_contributed |-> stx_amount])
    /\ farmer_rewards' = add_farmer_fee(farmer_rewards, pool_id, pool, fee)
    /\ last' = Response(op, sender, args, TRUE, usdt_out)
    /\ UNCHANGED << pool_nonce, total_pools_created, farmer_pools,
                    stacks_block_height >>

\* The model admits a successful trade only while fewer than MaxTrades
\* trades are recorded; a failing call is admitted at any time.
Buy ==
  \E sender \in Users, pool_id \in PoolIds, stx_amount \in BuyAmounts :
     /\ buy_usdt(sender, pool_id, stx_amount)
     /\ last'.ok => TotalTrades(liquidity_pools, pool_nonce) < MaxTrades
     /\ Record /\ UNCHANGED tokenState

\* ------------------------------------------------------------- sell-usdt
\* (/ (* usdt-after-fee stx-reserve) (+ usdt-reserve usdt-after-fee))
sell_stx_out(pool, usdt_amount) ==
  LET usdt_after_fee == usdt_amount - calculate_fee(usdt_amount)
  IN  MulDiv(usdt_after_fee, pool.stx_reserve, pool.usdt_reserve + usdt_after_fee)

\* variant: the reserve takes in the amount less the fee
sell_pool_record_net_of_fee(pool, usdt_amount, stx_out) ==
  [pool EXCEPT !.stx_reserve        = pool.stx_reserve - stx_out,
               !.usdt_reserve       = pool.usdt_reserve + usdt_amount
                                        - calculate_fee(usdt_amount),
               !.total_volume       = pool.total_volume + usdt_amount,
               !.total_transactions = pool.total_transactions + 1]

sell_pool_record(pool, usdt_amount, stx_out) ==
  [pool EXCEPT !.stx_reserve        = pool.stx_reserve - stx_out,
               !.usdt_reserve       = pool.usdt_reserve + usdt_amount,
               !.total_volume       = pool.total_volume + usdt_amount,
               !.total_transactions = pool.total_transactions + 1]

\* variant: the sold amount stays in usdt-deposited
sell_position_record_keep_deposit(position, usdt_amount, height) ==
  [position EXCEPT !.last_interaction = height,
                   !.can_claim        = TRUE]

sell_position_record(position, usdt_amount, height) ==
  [position EXCEPT !.usdt_deposited   = position.usdt_deposited - usdt_amount,
                   !.last_interaction = height,
                   !.can_claim        = TRUE]

\* variant: no zone-unlock check
sell_validation_no_lock(pool, position, pool_id, usdt_amount, stx_out, height) ==
  IF ~ pool.active THEN err_pool_not_found
  ELSE IF ~ (usdt_amount > 0) THEN err_invalid_amount
  ELSE IF ~ (usdt_amount <= position.usdt_deposited) THEN err_insufficient_balance
  ELSE IF ~ (stx_out > 0) THEN err_insufficient_liquidity
  ELSE 0

\* variant: no check of the amount against usdt-deposited
sell_validation_no_balance(pool, position, pool_id, usdt_amount, stx_out, height) ==
  IF ~ pool.active THEN err_pool_not_found
  ELSE IF ~ (usdt_amount > 0) THEN err_invalid_amount
  ELSE IF ~ (stx_out > 0) THEN err_insufficient_liquidity
  ELSE IF ~ is_zone_unlocked(liquidity_pools, pool_id, height) THEN err_zone_locked
  ELSE 0

\* the validations of sell-usdt in source order: 0 when all pass, else the
\* error code of the first that fails
sell_validation(pool, position, pool_id, usdt_amount, stx_out, height) ==
  IF ~ pool.active THEN err_pool_not_found
  ELSE IF ~ (usdt_amount > 0) THEN err_invalid_amount
  ELSE IF ~ (usdt_amount <= position.usdt_deposited) THEN err_insufficient_balance
  ELSE IF ~ (stx_out > 0) THEN err_insufficient_liquidity
  ELSE IF ~ is_zone_unlocked(liquidity_pools, pool_id, height) THEN err_zone_locked
  ELSE 0

sell_usdt(sender, pool_id, usdt_amount) ==
  LET op   == "sell-usdt"
      args == <<pool_id, usdt_amount>>
  IN
  IF ~ MapHas(liquidity_pools, pool_id)
  THEN Fail(op, sender, args, err_pool_not_found)
  ELSE IF ~ MapHas(user_positions, <<pool_id, sender>>)
  THEN Fail(op, sender, args, err_not_found)
  ELSE
  LET pool     == liquidity_pools[pool_id]
      position == user_positions[<<pool_id, sender>>]
      fee      == calculate_fee(usdt_amount)
      stx_out  == sell_stx_out(pool, usdt_amount)
      current_zone == pool.current_zone
      zone_stats ==
         IF MapHas(zone_statistics, <<pool_id, current_zone>>)
         THEN zone_statistics[<<pool_id, current_zone>>] ELSE default_zone_stats
      check == sell_validation(pool, position, pool_id, usdt_amount, stx_out,
                               stacks_block_height)
      pools_zone == update_zone_if_needed(liquidity_pools, pool_id,
                                          stacks_block_height)
  IN
  IF check # 0 THEN Fail(op, sender, args, check)
  ELSE IF ~ stx_can_transfer(stx_balance, stx_out, Contract)
       THEN FailAfterZoneUpdate(op, sender, args, err_stx_insufficient, pools_zone)
  ELSE IF ~ MapHas(farmer_rewards, <<pool_id, pool.lp_farmer>>)
       THEN FailAfterZoneUpdate(op, sender, args, err_not_found, pools_zone)
  ELSE
    /\ stx_balance' = stx_transfer(stx_balance, stx_out, Contract, sender)
    /\ liquidity_pools' = MapSet(pools_zone, pool_id,
                                 sell_pool_record(pool, usdt_amount, stx_out))
    /\ user_positions' = MapSet(user_positions, <<pool_id, sender>>,
          sell_position_record(position, usdt_amount, stacks_block_height))
    /\ zone_statistics' = MapSet(zone_statistics, <<pool_id, current_zone>>,
          [zone_stats EXCEPT !.total_sells = zone_stats.total_sells + 1,
                             !.volume      = zone_stats.volume + usdt_amount])
    /\ farmer_rewards' = add_farmer_fee(farmer_rewards, pool_id, pool, fee)
    /\ last' = Response(op, sender, args, TRUE, stx_out)
    /\ UNCHANGED << pool_nonce, total_pools_created, farmer_pools,
                    user_zone_participation, stacks_block_height >>

Sell ==
  \E sender \in Users, pool_id \in PoolIds, usdt_amount \in SellAmounts :
     /\ sell_usdt(sender, pool_id, usdt_amount)
     /\ last'.ok => TotalTrades(liquidity_pools, pool_nonce) < MaxTrades
     /\ Record /\ UNCHANGED tokenState

\* ---------------------------------------------------------- claim-rewards
\* variant: only the STX side of the position counts as contribution
claim_reward_amount_stx_only(pool, position) ==
  IF pool.total_volume > 0
  THEN calculate_user_reward(position.stx_deposited, pool.total_volume,
                             pool.current_zone, pool.total_volume)
  ELSE 0

claim_reward_amount(pool, position) ==
  LET user_contribution == position.stx_deposited + position.usdt_deposited
  IN  IF pool.total_volume > 0
      THEN calculate_user_reward(user_contribution, pool.total_volume,
                                 pool.current_zone, pool.total_volume)
      ELSE 0

\* variant: the eligibility flag is not looked at
claim_validation_no_flag(pool, position, pool_id, reward, height) ==
  IF ~ pool.active THEN err_pool_not_found
  ELSE IF ~ is_zone_unlocked(liquidity_pools, pool_id, height) THEN err_zone_locked
  ELSE IF ~ (reward > 0) THEN err_invalid_amount
  ELSE 0

\* the validations of claim-rewards in source order: 0 when all pass, else
\* the error code of the first that fails
claim_validation(pool, position, pool_id, reward, height) ==
  IF ~ pool.active THEN err_pool_not_found
  ELSE IF ~ is_zone_unlocked(liquidity_pools, pool_id, height) THEN err_zone_locked
  ELSE IF ~ (reward > 0) THEN err_invalid_amount
  ELSE IF ~ position.can_claim THEN err_unauthorized
  ELSE 0

claim_rewards(sender, pool_id) ==
  LET op   == "claim-rewards"
      args == <<pool_id>>
  IN
  IF ~ MapHas(liquidity_pools, pool_id)
  THEN Fail(op, sender, args, err_pool_not_found)
  ELSE IF ~ MapHas(user_positions, <<pool_id, sender>>)
  THEN Fail(op, sender, args, err_not_found)
  ELSE
  LET pool     == liquidity_pools[pool_id]
      position == user_positions[<<pool_id, sender>>]
      current_zone == pool.current_zone
      reward   == claim_reward_amount(pool, position)
      check    == claim_validation(pool, position, pool_id, reward,
                                   stacks_block_height)
  IN
  IF check # 0 THEN Fail(op, sender, args, check)
  ELSE IF ~ stx_can_transfer(stx_balance, reward, Contract)
       THEN Fail(op, sender, args, err_stx_insufficient)
  ELSE IF ~ MapHas(zone_statistics, <<pool_id, current_zone>>)
       THEN Fail(op, sender, args, err_not_found)
  ELSE
    /\ stx_balance' = stx_transfer(stx_balance, reward, Contract, sender)
    /\ user_positions' = MapSet(user_positions, <<pool_id, sender>>,
          [position EXCEPT !.rewards_earned   = position.rewards_earned + reward,
                           !.can_claim        = FALSE,
                           !.last_interaction = stacks_block_height])
    /\ zone_statistics' =
          LET zs == zone_statistics[<<pool_id, current_zone>>] IN
          MapSet(zone_statistics, <<pool_id, current_zone>>,
                 [zs EXCEPT !.rewards_distributed = zs.rewards_distributed + reward])
    /\ last' = Response(op, sender, args, TRUE, reward)
    /\ UNCHANGED << pool_nonce, total_pools_created, liquidity_pools,
                    farmer_rewards, user_zone_participation, farmer_pools,
                    stacks_block_height >>

ClaimRewards ==
  \E sender \in Users, pool_id \in PoolIds :
     claim_rewards(sender, pool_id) /\ Record /\ UNCHANGED tokenState

\* --------------------------------------------------- claim-farmer-rewards
\* variant: the rewards entry of the pool's farmer is read and the caller
\* is not compared with the farmer
farmer_claim_check_any_caller(pool_id, sender) ==
  IF ~ MapHas(liquidity_pools, pool_id)
  THEN [code |-> err_pool_not_found, key |-> <<>>]
  ELSE
  LET key == <<pool_id, liquidity_pools[pool_id].lp_farmer>> IN
  IF ~ MapHas(farmer_rewards, key) THEN [code |-> err_not_found, key |-> key]
  ELSE IF ~ (farmer_rewards[key].total_fees_earned > 0)
       THEN [code |-> err_invalid_amount, key |-> key]
  ELSE [code |-> 0, key |-> key]

\* the unwraps and validations of claim-farmer-rewards in source order:
\* code 0 when all pass, else the error code of the first that fails; key
\* is the farmer-rewards entry the call reads and writes
farmer_claim_check(pool_id, sender) ==
  LET key == <<pool_id, sender>> IN
  IF ~ MapHas(liquidity_pools, pool_id)
  THEN [code |-> err_pool_not_found, key |-> key]
  ELSE IF ~ MapHas(farmer_rewards, key)
  THEN [code |-> err_not_found, key |-> key]
  ELSE IF ~ (sender = liquidity_pools[pool_id].lp_farmer)
       THEN [code |-> err_unauthorized, key |-> key]
  ELSE IF ~ (farmer_rewards[key].total_fees_earned > 0)
       THEN [code |-> err_invalid_amount, key |-> key]
  ELSE [code |-> 0, key |-> key]

claim_farmer_rewards(sender, pool_id) ==
  LET op    == "claim-farmer-rewards"
      args  == <<pool_id>>
      check == farmer_claim_check(pool_id, sender)
  IN
  IF check.code # 0 THEN Fail(op, sender, args, check.code)
  ELSE
  LET rewards   == farmer_rewards[check.key]
      claimable == rewards.total_fees_earned
  IN
  IF ~ stx_can_transfer(stx_balance, claimable, Contract)
       THEN Fail(op, sender, args, err_stx_insufficient)
  ELSE
    /\ stx_balance' = stx_transfer(stx_balance, claimable, Contract, sender)
    /\ farmer_rewards' = MapSet(farmer_rewards, check.key,
          [rewards EXCEPT !.total_fees_earned = 0,
                          !.last_claimed = stacks_block_height])
    /\ last' = Response(op, sender, args, TRUE, claimable)
    /\ UNCHANGED << pool_nonce, total_pools_created, liquidity_pools,
                    user_positions, zone_statistics, user_zone_participation,
                    farmer_pools, stacks_block_height >>

ClaimFarmerRewards ==
  \E sender \in Principals, pool_id \in PoolIds :
     claim_farmer_rewards(sender, pool_id) /\ Record /\ UNCHANGED tokenState

\* ------------------------------------------------------------ the chain
mine_empty_blocks(n) ==
  /\ stacks_block_height' = stacks_block_height + n
  /\ last' = Response("mine", Contract, <<n>>, TRUE, 0)
  /\ UNCHANGED contractState

MineBlocks ==
  \E n \in BlockSteps :
     /\ stacks_block_height + n <= MaxHeight
     /\ mine_empty_blocks(n)
     /\ Record /\ UNCHANGED tokenState

Next ==
  \/ CreatePool
  \/ Buy
  \/ Sell
  \/ ClaimRewards
  \/ ClaimFarmerRewards
  \/ MineBlocks

Spec == Init /\ [][Next]_vars

\* ------------------------------------------- longer runs on a single pool
\* The reference pool of the test suite with fewer inputs per call, so that
\* runs of more trades stay explorable: buy, sell, buy again, claim, ...
LongTrades == 3         \* successful buys + sells in a long run
LongHeight == 2         \* last block height explored in a long run
LongBuyAmounts  == {100000, 200000}
LongSellAmounts == {49000}

LongCreate ==
  /\ pool_nonce = 0
  /\ create_liquidity_pool("lpFarmer1", 10000000, 10000000, 3, 2)
  /\ Record /\ UNCHANGED tokenState

LongBuy ==
  \E sender \in Users, stx_amount \in LongBuyAmounts :
     /\ buy_usdt(sender, 0, stx_amount)
     /\ last'.ok => TotalTrades(liquidity_pools, pool_nonce) < LongTrades
     /\ Record /\ UNCHANGED tokenState

LongSell ==
  \E sender \in Users, usdt_amount \in LongSellAmounts :
     /\ sell_usdt(sender, 0, usdt_amount)
     /\ last'.ok => TotalTrades(liquidity_pools, pool_nonce) < LongTrades
     /\ Record /\ UNCHANGED tokenState

LongClaimRewards ==
  \E sender \in Users : claim_rewards(sender, 0) /\ Record /\ UNCHANGED tokenState

LongClaimFarmerRewards ==
  \E sender \in Farmers : claim_farmer_rewards(sender, 0) /\ Record /\ UNCHANGED tokenState

LongMineBlocks ==
  /\ stacks_block_height + 1 <= LongHeight
  /\ mine_empty_blocks(1)
  /\ Record /\ UNCHANGED tokenState

NextLong ==
  \/ LongCreate
  \/ LongBuy
  \/ LongSell
  \/ LongClaimRewards
  \/ LongClaimFarmerRewards
  \/ LongMineBlocks

SpecLong == Init /\ [][NextLong]_vars

\* --------------------------------------------- runs over several pools
\* Both farmers create pools in any order, one user buys on any of them,
\* and everybody tries to claim any pool's farmer fees.
RegistryPools  == 3     \* pools created in a registry run
RegistryTrades == 1     \* successful buys in a registry run
RegistryConfigs == { <<4, 40, 1, 1>>, <<0, 40, 1, 1>> }
RegistryIds     == 0 .. RegistryPools

RegistryCreate ==
  /\ pool_nonce < RegistryPools
  /\ \E sender \in Farmers, cfg \in RegistryConfigs :
        create_liquidity_pool(sender, cfg[1], cfg[2], cfg[3], cfg[4])
  /\ Record /\ UNCHANGED tokenState

RegistryBuy ==
  \E pool_id \in RegistryIds :
     /\ buy_usdt("user1", pool_id, 100000)
     /\ last'.ok => TotalTrades(liquidity_pools, pool_nonce) < RegistryTrades
     /\ Record /\ UNCHANGED tokenState

RegistryClaimFarmerRewards ==
  \E sender \in Principals, pool_id \in RegistryIds :
     claim_farmer_rewards(sender, pool_id) /\ Record /\ UNCHANGED tokenState

NextRegistry ==
  \/ RegistryCreate
  \/ RegistryBuy
  \/ RegistryClaimFarmerRewards

SpecRegistry == Init /\ [][NextRegistry]_vars

\* ------------------------------------------------- runs over two pools
\* Two pools, a small and a large one in any order, one user trading and
\* claiming on either, the farmers claiming their fees.
CrossPools  == 2        \* pools created in a two-pool run
CrossTrades == 2        \* successful buys + sells in a two-pool run
CrossHeight == 1        \* last block height explored in a two-pool run
CrossConfigs == { <<4, 40, 1, 1>>, <<10000000, 10000000, 3, 2>> }
CrossIds     == 0 .. (CrossPools - 1)

CrossCreate ==
  /\ pool_nonce < CrossPools
  /\ \E sender \in Farmers, cfg \in CrossConfigs :
        create_liquidity_pool(sender, cfg[1], cfg[2], cfg[3], cfg[4])
  /\ Record /\ UNCHANGED tokenState

CrossBuy ==
  \E pool_id \in CrossIds :
     /\ buy_usdt("user1", pool_id, 100000)
     /\ last'.ok => TotalTrades(liquidity_pools, pool_nonce) < CrossTrades
     /\ Record /\ UNCHANGED tokenState

CrossSell ==
  \E pool_id \in CrossIds :
     /\ sell_usdt("user1", pool_id, 1)
     /\ last'.ok => TotalTrades(liquidity_pools, pool_nonce) < CrossTrades
     /\ Record /\ UNCHANGED tokenState

CrossClaimRewards ==
  \E pool_id \in CrossIds : claim_rewards("user1", pool_id) /\ Record /\ UNCHANGED tokenState

CrossClaimFarmerRewards ==
  \E sender \in Farmers, pool_id \in CrossIds :
     claim_farmer_rewards(sender, pool_id) /\ Record /\ UNCHANGED tokenState

CrossMineBlocks ==
  /\ stacks_block_height + 1 <= CrossHeight
  /\ mine_empty_blocks(1)
  /\ Record /\ UNCHANGED tokenState

NextCross ==
  \/ CrossCreate
  \/ CrossBuy
  \/ CrossSell
  \/ CrossClaimRewards
  \/ CrossClaimFarmerRewards
  \/ CrossMineBlocks

SpecCross == Init /\ [][NextCross]_vars

\* --------------------------------------------- runs of successive buys
\* Both users buy one after the other, on the reference pool and on a
\* shallow pool where the rounding of the output weighs.
PriceTrades  == 2       \* successful buys in a run of buys
PriceConfigs == { <<10000000, 10000000, 3, 2>>, <<1000, 10, 1, 1>> }
PriceAmounts == { 248, 358, 100000, 200000 }

PriceCreate ==
  /\ pool_nonce = 0
  /\ \E sender \in Farmers, cfg \in PriceConfigs :
        create_liquidity_pool(sender, cfg[1], cfg[2], cfg[3], cfg[4])
  /\ Record /\ UNCHANGED tokenState

PriceBuy ==
  \E sender \in Users, stx_amount \in PriceAmounts :
     /\ buy_usdt(sender, 0, stx_amount)
     /\ last'.ok => TotalTrades(liquidity_pools, pool_nonce) < PriceTrades
     /\ Record /\ UNCHANGED tokenState

NextPrice ==
  \/ PriceCreate
  \/ PriceBuy

SpecPrice == Init /\ [][NextPrice]_vars

\* ------------------------------------------ one farmer filling its list
\* lpFarmer1 creates pool after pool until its list of 100 is full and one
\* more creation is attempted.
CapacityCreate ==
  /\ pool_nonce <= farmer_pools_max_len
  /\ \E cfg \in RegistryConfigs :
        create_liquidity_pool("lpFarmer1", cfg[1], cfg[2], cfg[3], cfg[4])
  /\ Record /\ UNCHANGED tokenState

NextCapacity == CapacityCreate

SpecCapacity == Init /\ [][NextCapacity]_vars

\* ======================================================================
\* mock-usdt
\* ======================================================================
\* The token contract with its faucet. The tokens minted at deployment sit
\* with the contract owner, who is none of the principals of a run; the
\* balances of the principals start at 0.

TokenFail(op, sender, args, code) ==
  /\ last' = Response(op, sender, args, FALSE, code)
  /\ UNCHANGED << contractState, stacks_block_height, tokenState >>

\* ft-mint? on the supply: amount more millionths
ft_mint_supply(supply, amount) ==
  LET m == supply.micro + amount
  IN  [tokens |-> supply.tokens + (m \div token_unit), micro |-> m % token_unit]

\* (default-to u0 (map-get? faucet-claims user))
last_claim_of(claims, user) == IF MapHas(claims, user) THEN claims[user] ELSE 0

\* variant: the cooldown must be exceeded, not only reached
request_validation_strict(last_claim, current_height) ==
  IF current_height - last_claim > faucet_cooldown THEN 0
  ELSE err_faucet_cooldown

\* the asserts! of request-faucet: 0 when it passes, else the error code.
\* Recorded claim heights never exceed the height, so the uint subtraction
\* does not underflow.
request_validation(last_claim, current_height) ==
  IF current_height - last_claim >= faucet_cooldown THEN 0
  ELSE err_faucet_cooldown

request_faucet(sender) ==
  LET op   == "request-faucet"
      last_claim     == last_claim_of(faucet_claims, sender)
      current_height == stacks_block_height
      check == request_validation(last_claim, current_height)
  IN
  IF check # 0 THEN TokenFail(op, sender, <<>>, check)
  ELSE
    /\ ft_balance' = [ft_balance EXCEPT ![sender] = @ + faucet_amount]
    /\ ft_supply' = ft_mint_supply(ft_supply, faucet_amount)
    /\ faucet_claims' = MapSet(faucet_claims, sender, current_height)
    /\ last' = Response(op, sender, <<>>, TRUE, faucet_amount)
    /\ UNCHANGED << contractState, stacks_block_height >>

\* read-only
can_claim_faucet(user) ==
  LET last_claim         == last_claim_of(faucet_claims, user)
      current_height     == stacks_block_height
      blocks_since_claim == current_height - last_claim
  IN  blocks_since_claim >= faucet_cooldown

\* transfer, the memo left out (it is only printed)
transfer(tx_sender, amount, sender, recipient) ==
  LET op   == "transfer"
      args == <<amount, sender, recipient>>
  IN
  IF tx_sender # sender THEN TokenFail(op, tx_sender, args, err_not_token_owner)
  ELSE IF ~ (amount > 0)
  THEN TokenFail(op, tx_sender, args, token_err_invalid_amount)
  ELSE IF sender = recipient
  THEN TokenFail(op, tx_sender, args, ft_err_same_principal)
  ELSE IF ft_balance[sender] < amount
  THEN TokenFail(op, tx_sender, args, ft_err_insufficient)
  ELSE
    /\ ft_balance' = [ft_balance EXCEPT ![sender] = @ - amount,
                                         ![recipient] = @ + amount]
    /\ last' = Response(op, tx_sender, args, TRUE, 0)
    /\ UNCHANGED << contractState, stacks_block_height, ft_supply,
                    faucet_claims >>

\* ---------------------------------------------------- runs of the faucet
\* Both users ask the faucet and pass tokens to each other while the chain
\* advances by one block less than the cooldown or by the cooldown.
FaucetHeight  == 288     \* last block height explored in a faucet run
FaucetSteps   == {faucet_cooldown - 1, faucet_cooldown}
FaucetAmounts == {0, faucet_amount}

FaucetRequest ==
  \E sender \in Users : request_faucet(sender) /\ Record

FaucetTransfer ==
  \E tx_sender \in Users, sender \in Users, recipient \in Users,
     amount \in FaucetAmounts :
     transfer(tx_sender, amount, sender, recipient) /\ Record

FaucetMineBlocks ==
  \E n \in FaucetSteps :
     /\ stacks_block_height + n <= FaucetHeight
     /\ mine_empty_blocks(n)
     /\ Record /\ UNCHANGED tokenState

NextFaucet ==
  \/ FaucetRequest
  \/ FaucetTransfer
  \/ FaucetMineBlocks

SpecFaucet == Init /\ [][NextFaucet]_vars

\* ======================================================================
\* Properties
\* ======================================================================

\* exact products of two uints below 10^8, as three base-10^4 limbs
\* (most significant first), and their order
Wide(a, b) ==
  LET a1 == a \div 10000
      a0 == a % 10000
      b1 == b \div 10000
      b0 == b % 10000
      p0 == a0 * b0
      d1 == a1 * b0 + a0 * b1 + (p0 \div 10000)
  IN  << a1 * b1 + (d1 \div 10000), d1 % 10000, p0 % 10000 >>

WideLt(u, v) ==
  \/ u[1] < v[1]
  \/ u[1] = v[1] /\ u[2] < v[2]
  \/ u[1] = v[1] /\ u[2] = v[2] /\ u[3] < v[3]

WideLeq(u, v) == u = v \/ WideLt(u, v)

\* q = floor(n * y / d)
IsFloorOfQuotient(q, n, y, d) ==
  /\ WideLeq(Wide(q, d), Wide(n, y))
  /\ WideLt(Wide(n, y), Wide(q + 1, d))

TradeOps == {"buy-usdt", "sell-usdt"}

IsOkCall(r, op) == r.op = op /\ r.ok

IsOkTrade(r) == r.op \in TradeOps /\ r.ok

IsError(r, op, code) == r.op = op /\ ~ r.ok /\ r.val = code

\* the zone of a pool is due to advance at the current height
ZoneDue(pool) ==
  /\ stacks_block_height >= pool.zone_unlock_time
  /\ pool.current_zone < pool.zone_count

\* ---------------------------------------------------------------- C1
\* C1: in every reachable state every existing pool has stx-reserve > 0
\* and usdt-reserve > 0.
C1_ReservesPositive ==
  \A p \in DOMAIN liquidity_pools :
     /\ liquidity_pools[p].stx_reserve > 0
     /\ liquidity_pools[p].usdt_reserve > 0

\* a pool that has been bought from and then sold into
C1_Witness ==
  /\ IsOkCall(last, "sell-usdt")
  /\ liquidity_pools[last.args[1]].total_transactions >= 2
  /\ liquidity_pools[last.args[1]].stx_reserve > 0
  /\ liquidity_pools[last.args[1]].usdt_reserve > 0

\* ---------------------------------------------------------------- C2
\* C2: a successful buy or sell executed when the pool's zone is due
\* (height >= zone-unlock-time and current-zone < zone-count) leaves the
\* stored pool with current-zone + 1 and zone-unlock-time + zone-duration.
C2_ZoneAdvancesOnDueTrade ==
  [][ IsOkTrade(last') =>
        LET pre  == liquidity_pools[last'.args[1]]
            post == liquidity_pools'[last'.args[1]]
        IN  ZoneDue(pre) =>
              /\ post.current_zone = pre.current_zone + 1
              /\ post.zone_unlock_time = pre.zone_unlock_time + pre.zone_duration
    ]_vars

\* ---------------------------------------------------------------- C3
\* C3: from one committed state to the next no pool's current-zone
\* decreases, and it always lies in 0 .. zone-count.
C3_ZoneMonotoneInRange ==
  [][ \A p \in DOMAIN liquidity_pools' :
        /\ liquidity_pools'[p].current_zone >= 0
        /\ liquidity_pools'[p].current_zone <= liquidity_pools'[p].zone_count
        /\ p \in DOMAIN liquidity_pools =>
             liquidity_pools'[p].current_zone >= liquidity_pools[p].current_zone
    ]_vars

\* a trade went through on a pool whose unlock height has passed
C3_Witness ==
  /\ IsOkTrade(last)
  /\ stacks_block_height >= liquidity_pools[last.args[1]].zone_unlock_time
  /\ liquidity_pools[last.args[1]].current_zone
        <= liquidity_pools[last.args[1]].zone_count

\* ---------------------------------------------------------------- C4
\* the sell the last step attempted: pool and position exist, the pool is
\* active, 0 < usdt-amount <= usdt-deposited, and the height is below the
\* pool's zone-unlock-time (all read before the step)
SellWhileLocked(r) ==
  /\ r.op = "sell-usdt"
  /\ MapHas(liquidity_pools, r.args[1])
  /\ MapHas(user_positions, <<r.args[1], r.sender>>)
  /\ liquidity_pools[r.args[1]].active
  /\ r.args[2] > 0
  /\ r.args[2] <= user_positions[<<r.args[1], r.sender>>].usdt_deposited
  /\ stacks_block_height < liquidity_pools[r.args[1]].zone_unlock_time

\* floor(net * stx-reserve / (usdt-reserve + net)) = 0 for this amount
SellOutIsZero(pool, usdt_amount) ==
  LET net == usdt_amount - ((usdt_amount * 30) \div 10000)
  IN  WideLt(Wide(net, pool.stx_reserve), Wide(1, pool.usdt_reserve + net))

\* C4 as stated: such a sell fails with err-zone-locked whatever the
\* computed stx-out is, and changes no state.
C4_LockedSellAlwaysZoneLocked ==
  [][ SellWhileLocked(last') =>
        /\ IsError(last', "sell-usdt", err_zone_locked)
        /\ UNCHANGED contractState
    ]_vars

\* C4 amended: such a sell fails and changes no state; the error is
\* err-zone-locked when the computed stx-out is > 0 and
\* err-insufficient-liquidity when it is 0.
C4_LockedSellFails ==
  [][ SellWhileLocked(last') =>
        /\ IsError(last', "sell-usdt",
                   IF SellOutIsZero(liquidity_pools[last'.args[1]], last'.args[2])
                   THEN err_insufficient_liquidity ELSE err_zone_locked)
        /\ UNCHANGED contractState
    ]_vars

\* a holder's sell was refused because the zone is still locked
C4_Witness ==
  /\ SellWhileLocked(last)
  /\ IsError(last, "sell-usdt", err_zone_locked)

\* ---------------------------------------------------------------- C5
\* C5: check-zone-unlocked of an existing pool is true exactly when the
\* height has reached the stored zone-unlock-time; for a pool without
\* trades that is exactly when height >= created-at + zone-duration.
C5_UnlockedIffHeightReached ==
  \A p \in DOMAIN liquidity_pools :
     LET pool == liquidity_pools[p] IN
     /\ check_zone_unlocked(p) <=> stacks_block_height >= pool.zone_unlock_time
     /\ pool.total_transactions = 0 =>
          (check_zone_unlocked(p) <=>
             stacks_block_height >= pool.created_at + pool.zone_duration)

\* an untouched pool created after genesis whose first unlock has passed
C5_Witness ==
  \E p \in DOMAIN liquidity_pools :
     /\ liquidity_pools[p].total_transactions = 0
     /\ liquidity_pools[p].created_at > 0
     /\ stacks_block_height >= liquidity_pools[p].created_at
                                 + liquidity_pools[p].zone_duration
     /\ check_zone_unlocked(p)

\* ---------------------------------------------------------------- C6
\* C6: a successful buy returns floor(net * usdt-reserve / (stx-reserve +
\* net)) with net = stx-amount - floor(stx-amount * 30 / 10000) on the
\* reserves before the call, adds the whole stx-amount to stx-reserve and
\* takes the returned amount off usdt-reserve; 100,000 into
\* 10,000,000 / 10,000,000 returns 98,715.
C6_BuyOutput ==
  [][ IsOkCall(last', "buy-usdt") =>
        LET pre    == liquidity_pools[last'.args[1]]
            post   == liquidity_pools'[last'.args[1]]
            amount == last'.args[2]
            net    == amount - ((amount * 30) \div 10000)
        IN  /\ IsFloorOfQuotient(last'.val, net, pre.usdt_reserve,
                                 pre.stx_reserve + net)
            /\ post.stx_reserve = pre.stx_reserve + amount
            /\ post.usdt_reserve = pre.usdt_reserve - last'.val
            /\ (pre.stx_reserve = 10000000 /\ pre.usdt_reserve = 10000000
                  /\ amount = 100000) => last'.val = 98715
    ]_vars

\* the 100,000 buy on the 10,000,000 / 10,000,000 pool has returned 98,715
C6_Witness ==
  /\ IsOkCall(last, "buy-usdt")
  /\ last.args[2] = 100000
  /\ last.val = 98715
  /\ liquidity_pools[last.args[1]].stx_reserve = 10100000
  /\ liquidity_pools[last.args[1]].usdt_reserve = 9901285

\* ---------------------------------------------------------------- C7
\* the first trade of a 10,000,000 / 10,000,000 pool is a successful buy
\* of 100,000
ScenarioBuy(r) ==
  /\ IsOkCall(r, "buy-usdt")
  /\ r.args[2] = 100000
  /\ liquidity_pools[r.args[1]].total_transactions = 0
  /\ liquidity_pools[r.args[1]].stx_reserve = 10000000
  /\ liquidity_pools[r.args[1]].usdt_reserve = 10000000

FeesOf(rewards, pools, p) == rewards[<<p, pools[p].lp_farmer>>].total_fees_earned

\* C7 as stated: that buy credits a fee of 300, returns 98,713 and leaves
\* usdt-reserve at 10,000,000 - 98,713.
C7_ScenarioBuyReturns98713 ==
  [][ ScenarioBuy(last') =>
        /\ FeesOf(farmer_rewards', liquidity_pools, last'.args[1])
             = FeesOf(farmer_rewards, liquidity_pools, last'.args[1]) + 300
        /\ last'.val = 98713
        /\ liquidity_pools'[last'.args[1]].usdt_reserve = 10000000 - 98713
    ]_vars

\* C7 amended: that buy credits a fee of 300 (net input 99,700), returns
\* 98,715 = floor(99,700 * 10,000,000 / 10,099,700) and leaves usdt-reserve
\* at 10,000,000 - 98,715.
C7_ScenarioBuyReturns98715 ==
  [][ ScenarioBuy(last') =>
        /\ FeesOf(farmer_rewards', liquidity_pools, last'.args[1])
             = FeesOf(farmer_rewards, liquidity_pools, last'.args[1]) + 300
        /\ last'.val = 98715
        /\ liquidity_pools'[last'.args[1]].usdt_reserve = 10000000 - 98715
    ]_vars

\* the scenario buy has just happened
C7_Witness ==
  /\ IsOkCall(last, "buy-usdt")
  /\ last.args[2] = 100000
  /\ liquidity_pools[last.args[1]].total_transactions = 1
  /\ liquidity_pools[last.args[1]].stx_reserve = 10100000
  /\ FeesOf(farmer_rewards, liquidity_pools, last.args[1]) = 300

\* ---------------------------------------------------------------- C8
\* C8: a successful sell returns floor(net * stx-reserve / (usdt-reserve +
\* net)) with net = usdt-amount - floor(usdt-amount * 30 / 10000) on the
\* reserves before the call, takes it off stx-reserve, adds usdt-amount to
\* usdt-reserve, takes usdt-amount off the seller's usdt-deposited and sets
\* the seller's can-claim; selling 49,000 after the 100,000 buy on the
\* 10,000,000 / 10,000,000 pool returns 49,588.
C8_SellOutput ==
  [][ IsOkCall(last', "sell-usdt") =>
        LET pre     == liquidity_pools[last'.args[1]]
            post    == liquidity_pools'[last'.args[1]]
            key     == <<last'.args[1], last'.sender>>
            amount  == last'.args[2]
            net     == amount - ((amount * 30) \div 10000)
        IN  /\ IsFloorOfQuotient(last'.val, net, pre.stx_reserve,
                                 pre.usdt_reserve + net)
            /\ post.stx_reserve = pre.stx_reserve - last'.val
            /\ post.usdt_reserve = pre.usdt_reserve + amount
            /\ user_positions'[key].usdt_deposited
                 = user_positions[key].usdt_deposited - amount
            /\ user_positions'[key].can_claim
            /\ (pre.stx_reserve = 10100000 /\ pre.usdt_reserve = 9901285
                  /\ amount = 49000) => last'.val = 49588
    ]_vars

\* the 49,000 sell after the 100,000 buy has returned 49,588
C8_Witness ==
  /\ IsOkCall(last, "sell-usdt")
  /\ last.args[2] = 49000
  /\ last.val = 49588
  /\ liquidity_pools[last.args[1]].usdt_reserve = 9901285 + 49000
  /\ user_positions[<<last.args[1], last.sender>>].can_claim

\* ---------------------------------------------------------------- C9
\* a sell on an existing pool by a sender without a position there
SellWithoutPosition(r) ==
  /\ r.op = "sell-usdt"
  /\ MapHas(liquidity_pools, r.args[1])
  /\ ~ MapHas(user_positions, <<r.args[1], r.sender>>)

\* a sell on an existing pool of more than the sender's usdt-deposited
SellMoreThanDeposited(r) ==
  /\ r.op = "sell-usdt"
  /\ MapHas(liquidity_pools, r.args[1])
  /\ MapHas(user_positions, <<r.args[1], r.sender>>)
  /\ user_positions[<<r.args[1], r.sender>>].usdt_deposited < r.args[2]

DepositsNonNegative(positions) ==
  \A k \in DOMAIN positions : positions[k].usdt_deposited >= 0

\* C9 as stated: both kinds of sell fail with err-insufficient-balance and
\* change no state; usdt-deposited never goes below 0.
C9_SellFailsInsufficientBalance ==
  [][ /\ (SellWithoutPosition(last') \/ SellMoreThanDeposited(last')) =>
           /\ IsError(last', "sell-usdt", err_insufficient_balance)
           /\ UNCHANGED contractState
      /\ DepositsNonNegative(user_positions')
    ]_vars

\* C9 amended: a sell without a position fails with err-not-found, a sell
\* of more than the position's usdt-deposited fails with
\* err-insufficient-balance, both change no state; usdt-deposited never
\* goes below 0.
C9_SellFailsWithoutFunds ==
  [][ /\ SellWithoutPosition(last') =>
           /\ IsError(last', "sell-usdt", err_not_found)
           /\ UNCHANGED contractState
      /\ SellMoreThanDeposited(last') =>
           /\ IsError(last', "sell-usdt", err_insufficient_balance)
           /\ UNCHANGED contractState
      /\ DepositsNonNegative(user_positions')
    ]_vars

\* an unlocked pool refused a sell of more than the seller holds
C9_Witness ==
  /\ SellMoreThanDeposited(last)
  /\ IsError(last, "sell-usdt", err_insufficient_balance)
  /\ check_zone_unlocked(last.args[1])

\* --------------------------------------------------------------- C10
\* C10: stx-reserve * usdt-reserve after a successful buy or sell is at
\* least the product before it.
C10_ProductNonDecreasing ==
  [][ IsOkTrade(last') =>
        LET pre  == liquidity_pools[last'.args[1]]
            post == liquidity_pools'[last'.args[1]]
        IN  WideLeq(Wide(pre.stx_reserve, pre.usdt_reserve),
                    Wide(post.stx_reserve, post.usdt_reserve))
    ]_vars

\* a sell followed a buy and the product has grown past the initial
\* 10,000,000 * 10,000,000
C10_Witness ==
  /\ IsOkCall(last, "sell-usdt")
  /\ liquidity_pools[last.args[1]].stx_reserve > 10000000
  /\ WideLt(Wide(10000000, 10000000),
            Wide(liquidity_pools[last.args[1]].stx_reserve,
                 liquidity_pools[last.args[1]].usdt_reserve))

\* --------------------------------------------------------------- C11
\* the user's last successful buy, sell or claim on the pool, "none" when
\* there was none
RecentOf(h, pool_id, user) ==
  IF MapHas(h.recent, <<pool_id, user>>) THEN h.recent[<<pool_id, user>>]
  ELSE "none"

\* C11: claim-rewards succeeds for a user on a pool only when the user's
\* most recent successful buy, sell or claim on that pool was a sell: never
\* before the first sell, not after a buy that followed the sell, and not
\* twice without a sell in between.
C11_ClaimOnlyAfterSell ==
  [][ IsOkCall(last', "claim-rewards") =>
        RecentOf(history, last'.args[1], last'.sender) = "sell-usdt"
    ]_vars

\* a user claimed for the second time, after selling again
C11_Witness ==
  /\ IsOkCall(last, "claim-rewards")
  /\ user_positions[<<last.args[1], last.sender>>].rewards_earned > last.val

\* --------------------------------------------------------------- C12
\* a claim-rewards call on an existing, active, unlocked pool by a user
\* whose position has can-claim = false
ClaimWhileNotEligible(r) ==
  /\ r.op = "claim-rewards"
  /\ MapHas(liquidity_pools, r.args[1])
  /\ liquidity_pools[r.args[1]].active
  /\ check_zone_unlocked(r.args[1])
  /\ MapHas(user_positions, <<r.args[1], r.sender>>)
  /\ ~ user_positions[<<r.args[1], r.sender>>].can_claim

\* C12: on an active, unlocked pool a claim-rewards by a user whose position
\* has can-claim = false fails with err-unauthorized whatever the computed
\* reward is, and changes no state.
C12_IneligibleClaimUnauthorized ==
  [][ ClaimWhileNotEligible(last') =>
        /\ IsError(last', "claim-rewards", err_unauthorized)
        /\ UNCHANGED contractState
    ]_vars

\* a user who bought and never sold was refused on an unlocked pool, the
\* reward computed for them being positive
C12_Witness ==
  /\ ClaimWhileNotEligible(last)
  /\ IsError(last, "claim-rewards", err_unauthorized)
  /\ RecentOf(history, last.args[1], last.sender) = "buy-usdt"
  /\ claim_reward_amount(liquidity_pools[last.args[1]],
                         user_positions[<<last.args[1], last.sender>>]) > 0

C14_RewardIsShareOfFees ==
  [][ IsOkCall(last', "claim-rewards") =>
        LET p    == last'.args[1]
            pool == liquidity_pools[p]
            pos  == user_positions[<<p, last'.sender>>]
            contribution == pos.stx_deposited + pos.usdt_deposited
            pool_fees    == history.collected[p]
            multiplier   == 100 + 50 * pool.current_zone
            base == MulDiv(contribution, pool_fees, pool.total_volume)
        IN  /\ last'.val = (base * multiplier) \div 100
            /\ last'.val <= (pool_fees * multiplier) \div 100
    ]_vars

\* --------------------------------------------------------------- C15
\* a claim-farmer-rewards call on an existing pool by somebody who is not
\* the pool's farmer
FarmerClaimByOther(r) ==
  /\ r.op = "claim-farmer-rewards"
  /\ MapHas(liquidity_pools, r.args[1])
  /\ r.sender # liquidity_pools[r.args[1]].lp_farmer

\* C15: claim-farmer-rewards on a pool by anybody but the pool's farmer
\* fails with err-unauthorized or err-not-found, pays nothing and changes no
\* state, whatever fees the pool has accrued and whatever other pools the
\* caller owns; so the fees of a pool are only ever paid to its farmer.
C15_OnlyOwnerClaimsFees ==
  [][ FarmerClaimByOther(last') =>
        /\ ~ last'.ok
        /\ last'.val \in {err_unauthorized, err_not_found}
        /\ UNCHANGED contractState
    ]_vars

\* a farmer owning another pool was refused the accrued fees of a pool that
\* is not theirs
C15_Witness ==
  /\ FarmerClaimByOther(last)
  /\ ~ last.ok
  /\ get_farmer_pools(last.sender) # <<>>
  /\ FeesOf(farmer_rewards, liquidity_pools, last.args[1]) > 0

\* --------------------------------------------------------------- C16
\* the farmer of an existing pool
OwnerOf(pool_id) == liquidity_pools[pool_id].lp_farmer

\* what the farmer-rewards entry of every pool holds is what the trades
\* since the last claim (or since creation) have accrued
FeesMatchTrades ==
  \A p \in DOMAIN liquidity_pools :
     /\ MapHas(farmer_rewards, <<p, OwnerOf(p)>>)
     /\ farmer_rewards[<<p, OwnerOf(p)>>].total_fees_earned = history.accrued[p]

\* a claim-farmer-rewards call by the farmer of an existing pool
FarmerClaimByOwner(r) ==
  /\ r.op = "claim-farmer-rewards"
  /\ MapHas(liquidity_pools, r.args[1])
  /\ r.sender = OwnerOf(r.args[1])

\* C16: in every state total-fees-earned of (pool, farmer) is the sum of
\* floor(amount * 30 / 10000) over the successful buys and sells on the
\* pool since the farmer's last successful claim (or since creation); a
\* successful claim-farmer-rewards returns and pays exactly that amount,
\* resets it to 0 and sets last-claimed to the current height; a claim by
\* the farmer when it is 0 fails with err-invalid-amount.
C16_FarmerFeesAccrueAndPay ==
  /\ [] FeesMatchTrades
  /\ [][ FarmerClaimByOwner(last') =>
           LET p    == last'.args[1]
               o    == last'.sender
               fees == history.accrued[p]
           IN  IF fees = 0
               THEN /\ IsError(last', "claim-farmer-rewards", err_invalid_amount)
                    /\ UNCHANGED contractState
               ELSE /\ last'.ok
                    /\ last'.val = fees
                    /\ stx_balance' = [stx_balance EXCEPT ![Contract] = @ - fees,
                                                          ![o] = @ + fees]
                    /\ farmer_rewards'[<<p, o>>] =
                         [total_fees_earned |-> 0,
                          last_claimed |-> stacks_block_height]
       ]_vars

\* the farmer was paid the 900 accrued by buys of 100,000 and 200,000
C16_Witness ==
  /\ FarmerClaimByOwner(last)
  /\ last.ok
  /\ last.val = 900
  /\ liquidity_pools[last.args[1]].total_volume = 300000
  /\ farmer_rewards[<<last.args[1], last.sender>>].total_fees_earned = 0

\* --------------------------------------------------------------- C17
\* a create-liquidity-pool call, the four arguments in call order
IsCreate(r) == r.op = "create-liquidity-pool"

ZeroAmount(args) == args[1] = 0 \/ args[2] = 0

BadZoneConfig(args) == args[3] \notin 1 .. 10 \/ args[4] = 0

\* the call failed with `code' and left the contract as it was: no pool, no
\* id consumed, total and lists unchanged, no STX moved
RejectedWith(r, code) ==
  /\ ~ r.ok
  /\ r.val = code
  /\ UNCHANGED contractState

\* C17 as stated: err-invalid-amount whenever an initial amount is 0 and
\* err-invalid-zone whenever zone-count is outside 1..10 or zone-duration
\* is 0, each time without any change of state.
C17_CreateRejectsEachInvalidInput ==
  [][ IsCreate(last') =>
        /\ ZeroAmount(last'.args) => RejectedWith(last', err_invalid_amount)
        /\ BadZoneConfig(last'.args) => RejectedWith(last', err_invalid_zone)
    ]_vars

\* C17: create-liquidity-pool fails with err-invalid-amount when an initial
\* amount is 0 and, both amounts being positive, with err-invalid-zone when
\* zone-count is outside 1..10 or zone-duration is 0; each time no pool is
\* created, no id is consumed, the total, the lists and the STX ledger are
\* unchanged.
C17_CreateRejectsInvalidInput ==
  [][ IsCreate(last') =>
        /\ ZeroAmount(last'.args) => RejectedWith(last', err_invalid_amount)
        /\ ~ ZeroAmount(last'.args) /\ BadZoneConfig(last'.args)
             => RejectedWith(last', err_invalid_zone)
    ]_vars

\* a creation with a zero amount and a zone-count of 0 was refused for the
\* amount
C17_Witness ==
  /\ IsCreate(last)
  /\ ZeroAmount(last.args)
  /\ BadZoneConfig(last.args)
  /\ IsError(last, "create-liquidity-pool", err_invalid_amount)
  /\ pool_nonce = get_total_pools

\* --------------------------------------------------------------- C18
\* the ids of the existing pools whose farmer is `o'
OwnedIds(o) ==
  { id \in DOMAIN liquidity_pools : liquidity_pools[id].lp_farmer = o }

IsIncreasing(seq) == \A i \in 1 .. (Len(seq) - 1) : seq[i] < seq[i + 1]

\* C18: the successful creations returned the ids 0, 1, 2, ... in order; the
\* existing pool ids are exactly 0 .. get-total-pools - 1; get-total-pools
\* is the number of successful creations; and get-farmer-pools of a
\* principal is the increasing sequence of exactly the ids of the pools
\* whose farmer it is.
C18_RegistryConsistent ==
  /\ \A i \in 1 .. Len(history.created) :
        /\ history.created[i][1] = i - 1
        /\ MapHas(liquidity_pools, i - 1)
        /\ liquidity_pools[i - 1].lp_farmer = history.created[i][2]
  /\ DOMAIN liquidity_pools = 0 .. (get_total_pools - 1)
  /\ get_total_pools = Len(history.created)
  /\ \A o \in Principals :
        LET pools == get_farmer_pools(o) IN
        /\ IsIncreasing(pools)
        /\ { pools[i] : i \in 1 .. Len(pools) } = OwnedIds(o)

\* three pools exist, lpFarmer1 owning the first and the third
C18_Witness ==
  /\ get_total_pools = 3
  /\ get_farmer_pools("lpFarmer1") = <<0, 2>>
  /\ get_farmer_pools("lpFarmer2") = <<1>>

\* --------------------------------------------------------------- C19
\* the ids the successful creations have returned
AllocatedIds == { history.created[i][1] : i \in 1 .. Len(history.created) }

\* ids asked about: those a run can allocate and two beyond
QueriedIds == 0 .. (MaxPools + 1)

\* C19: right after a successful create-liquidity-pool(S, Q, zones,
\* duration) by a farmer at height h, get-pool-info of the returned id is
\* (some) the record with lp-farmer = the farmer, stx-reserve = S,
\* usdt-reserve = Q, zone-count = zones, zone-duration = duration,
\* current-zone = 0, total-volume = 0, total-transactions = 0,
\* zone-unlock-time = h + duration, created-at = h and active = true; and in
\* every state get-pool-info of an id that was never allocated is none.
C19_CreateRoundTrip ==
  /\ [][ IsOkCall(last', "create-liquidity-pool") =>
           get_pool_info(liquidity_pools', last'.val) =
             << [ lp_farmer          |-> last'.sender,
                  stx_reserve        |-> last'.args[1],
                  usdt_reserve       |-> last'.args[2],
                  total_volume       |-> 0,
                  total_transactions |-> 0,
                  zone_count         |-> last'.args[3],
                  current_zone       |-> 0,
                  zone_unlock_time   |-> stacks_block_height + last'.args[4],
                  zone_duration      |-> last'.args[4],
                  created_at         |-> stacks_block_height,
                  active             |-> TRUE ] >>
       ]_vars
  /\ [] (\A id \in QueriedIds \ AllocatedIds :
            get_pool_info(liquidity_pools, id) = <<>>)

\* the pool of 4 STX and 40 USDT was created at height 2 and reads back
\* with its first unlock at height 3, the next id reading none
C19_Witness ==
  /\ IsOkCall(last, "create-liquidity-pool")
  /\ last.args = <<4, 40, 1, 1>>
  /\ stacks_block_height = 2
  /\ get_pool_info(liquidity_pools, last.val) # <<>>
  /\ get_pool_info(liquidity_pools, last.val)[1].zone_unlock_time = 3
  /\ get_pool_info(liquidity_pools, last.val + 1) = <<>>

\* --------------------------------------------------------------- C20
\* a create-liquidity-pool call by a principal whose list holds 100 pools
CreateOnFullList(r) ==
  /\ IsCreate(r)
  /\ Len(get_farmer_pools(r.sender)) = farmer_pools_max_len

\* no list is longer than 100 and none has lost a pool of its owner
ListsWithinCapacity ==
  \A o \in Principals :
     LET pools == get_farmer_pools(o) IN
     /\ Len(pools) <= 100
     /\ { pools[i] : i \in 1 .. Len(pools) } = OwnedIds(o)

\* C20: a create-liquidity-pool by an owner whose list already holds 100
\* pools does not succeed and leaves everything as it was: no pool record,
\* no farmer-rewards record, no list entry, pool-nonce and the total
\* unchanged, the STX of the caller not debited; and in every state no list
\* exceeds 100 entries or misses a pool of its owner.
C20_FullListCreateAborts ==
  /\ [] ListsWithinCapacity
  /\ [][ CreateOnFullList(last') =>
           /\ ~ last'.ok
           /\ UNCHANGED contractState
       ]_vars

\* the 101st creation of lpFarmer1, with valid arguments, was aborted
C20_Witness ==
  /\ CreateOnFullList(last)
  /\ last.args = <<4, 40, 1, 1>>
  /\ ~ last.ok
  /\ last.val = 0
  /\ get_total_pools = 100
  /\ stx_balance[Contract] = 400

\* --------------------------------------------------------------- C21
PublicOps ==
  { "create-liquidity-pool", "buy-usdt", "sell-usdt", "claim-rewards",
    "claim-farmer-rewards" }

IsBuy(r) == r.op = "buy-usdt"

\* the pool of the call does not exist or is not active
NoActivePool(r) ==
  \/ ~ MapHas(liquidity_pools, r.args[1])
  \/ ~ liquidity_pools[r.args[1]].active

\* floor(after-fee * usdt-reserve / (stx-reserve + after-fee)) is 0 for the
\* amount of the call on its existing pool
BuyOutIsZero(r) ==
  LET pool      == liquidity_pools[r.args[1]]
      after_fee == r.args[2] - ((r.args[2] * 30) \div 10000)
  IN  WideLt(Wide(after_fee, pool.usdt_reserve),
             Wide(pool.stx_reserve + after_fee, 1))

\* C22 as stated: a buy fails with err-invalid-amount whenever the amount
\* is 0, with err-pool-not-found whenever the pool does not exist or is
\* inactive, and with err-insufficient-liquidity whenever the computed
\* output is 0, each time without any change of state.
C22_BuyRejectsEachInvalidInput ==
  [][ IsBuy(last') =>
        /\ last'.args[2] = 0 => RejectedWith(last', err_invalid_amount)
        /\ NoActivePool(last') => RejectedWith(last', err_pool_not_found)
        /\ ~ NoActivePool(last') /\ BuyOutIsZero(last')
             => RejectedWith(last', err_insufficient_liquidity)
    ]_vars

\* C22: no buy of 0 succeeds.  A buy fails with err-pool-not-found when the
\* pool does not exist or is inactive; on an active pool with
\* err-invalid-amount when the amount is 0; and on an active pool with a
\* positive amount with err-insufficient-liquidity when the computed output
\* is 0; each time the state is unchanged.
C22_BuyRejectsInvalidInput ==
  [][ IsBuy(last') =>
        /\ NoActivePool(last') => RejectedWith(last', err_pool_not_found)
        /\ ~ NoActivePool(last') /\ last'.args[2] = 0
             => RejectedWith(last', err_invalid_amount)
        /\ ~ NoActivePool(last') /\ last'.args[2] > 0 /\ BuyOutIsZero(last')
             => RejectedWith(last', err_insufficient_liquidity)
    ]_vars

\* a buy of 1 micro-STX on the pool of 10,000,000 : 10,000,000 was refused
\* because its output rounds to 0
C22_Witness ==
  /\ IsError(last, "buy-usdt", err_insufficient_liquidity)
  /\ last.args[2] = 1
  /\ liquidity_pools[last.args[1]].stx_reserve >= 10000000

\* --------------------------------------------------------------- C23
\* the statistics of (pool, zone), the defaults when nothing is recorded
StatsOf(stats, pool_id, zone) ==
  IF MapHas(stats, <<pool_id, zone>>) THEN stats[<<pool_id, zone>>]
  ELSE default_zone_stats

\* C23: when a successful buy or sell finds the zone due and advances it
\* from z to z+1, the trade's statistics (total-buys or total-sells + 1,
\* volume + amount) and, for a buy, the participation entry of the user are
\* recorded under zone z+1, and nothing is recorded under zone z.
C23_StatsUnderAdvancedZone ==
  [][ IsOkTrade(last') /\ ZoneDue(liquidity_pools[last'.args[1]]) =>
        LET p   == last'.args[1]
            z   == liquidity_pools[p].current_zone
            old == StatsOf(zone_statistics, p, z + 1)
            new == StatsOf(zone_statistics', p, z + 1)
            buy == IF last'.op = "buy-usdt" THEN 1 ELSE 0
        IN  /\ new.volume = old.volume + last'.args[2]
            /\ new.total_buys = old.total_buys + buy
            /\ new.total_sells = old.total_sells + (1 - buy)
            /\ StatsOf(zone_statistics', p, z) = StatsOf(zone_statistics, p, z)
            /\ buy = 1 => MapHas(user_zone_participation',
                                 <<p, last'.sender, z + 1>>)
    ]_vars

\* --------------------------------------------------------------- C24
\* the successful trade of the call found the zone of its pool not due: a
\* buy below the unlock height, or any trade at the last zone
TradeWhileNotDue(r) ==
  /\ IsOkTrade(r)
  /\ LET pool == liquidity_pools[r.args[1]] IN
     \/ r.op = "buy-usdt" /\ stacks_block_height < pool.zone_unlock_time
     \/ pool.current_zone = pool.zone_count

\* C24: a buy below the unlock height, and any trade at the last zone,
\* leaves current-zone and zone-unlock-time of the pool as they were;
\* update-zone-if-needed writes nothing for a pool whose zone is not due.
C24_NoAdvanceWhenNotDue ==
  /\ [][ TradeWhileNotDue(last') =>
           LET pre  == liquidity_pools[last'.args[1]]
               post == liquidity_pools'[last'.args[1]]
           IN  /\ post.current_zone = pre.current_zone
               /\ post.zone_unlock_time = pre.zone_unlock_time
       ]_vars
  /\ [] (\A p \in DOMAIN liquidity_pools :
            ~ ZoneDue(liquidity_pools[p]) =>
               update_zone_if_needed(liquidity_pools, p, stacks_block_height)
                 = liquidity_pools)

\* a buy went through one block before the first unlock
C24_Witness ==
  /\ IsOkCall(last, "buy-usdt")
  /\ stacks_block_height + 1 = liquidity_pools[last.args[1]].zone_unlock_time
  /\ liquidity_pools[last.args[1]].current_zone = 0

\* --------------------------------------------------------------- C25
\* the part of a map whose keys belong to pool q (keys are tuples starting
\* with the pool id)
KeyedBy(m, q) == [k \in { x \in DOMAIN m : x[1] = q } |-> m[k]]

\* every record of pool q is the same after the step as before it
PoolUntouched(q) ==
  /\ liquidity_pools'[q] = liquidity_pools[q]
  /\ KeyedBy(user_positions', q) = KeyedBy(user_positions, q)
  /\ KeyedBy(farmer_rewards', q) = KeyedBy(farmer_rewards, q)
  /\ KeyedBy(zone_statistics', q) = KeyedBy(zone_statistics, q)

\* the pool a call is on: the first argument, or the returned id of a
\* successful creation; -1 for a call on no pool
PoolOfCall(r) ==
  IF r.op \in {"buy-usdt", "sell-usdt", "claim-rewards", "claim-farmer-rewards"}
  THEN r.args[1]
  ELSE IF IsOkCall(r, "create-liquidity-pool") THEN r.val
  ELSE -1

PayingOps == {"sell-usdt", "claim-rewards", "claim-farmer-rewards"}

\* C25: an operation on a pool leaves every record of every other pool
\* unchanged, and its result is what it would be had the operations on the
\* other pools not been executed.  The records of the pool and the height
\* being then the same, the results can differ only through the STX the
\* contract holds: a payout that succeeds is covered by what the calls on
\* its own pool have left in the contract (history.custody), and a payout
\* is never refused for lack of STX, which a run on that pool alone, the
\* claim says, would not refuse either.
C25_PoolsIndependent ==
  [][ last'.op \in PublicOps =>
        /\ \A q \in DOMAIN liquidity_pools :
              q # PoolOfCall(last') => PoolUntouched(q)
        /\ last'.op \in PayingOps /\ last'.ok
             => history.custody[last'.args[1]] >= last'.val
    ]_vars

\* --------------------------------------------------------------- C26
\* the step is a successful buy that directly follows a successful buy of
\* another user on the same pool
SecondOfTwoBuys ==
  /\ IsOkCall(last, "buy-usdt")
  /\ IsOkCall(last', "buy-usdt")
  /\ last'.args[1] = last.args[1]
  /\ last'.sender # last.sender

\* C26 as stated: the second of two consecutive buys gets strictly less
\* per unit paid: out2 * in1 < out1 * in2.
C26_SecondBuyStrictlyWorseRate ==
  [][ SecondOfTwoBuys =>
        WideLt(Wide(last'.val, last.args[2]), Wide(last.val, last'.args[2]))
    ]_vars

\* C26: the second of two consecutive buys gets at most what the same
\* amount would have bought on the pool as it was before the first buy,
\*   out2 <= floor(in2-after-fee * Q1 / (B1 + in2-after-fee)),
\* B1, Q1 the reserves before the first buy; and in the run 100,000 ->
\* 98,715 then 200,000 -> 191,692 the output per unit paid is strictly
\* smaller for the second buy.
C26_SecondBuyNoBetterThanFirstPool ==
  [][ SecondOfTwoBuys =>
        LET p  == last'.args[1]
            B1 == history.reserves[p][1] - last.args[2]
            Q1 == history.reserves[p][2] + last.val
            in2_after_fee == last'.args[2] - ((last'.args[2] * 30) \div 10000)
        IN  /\ WideLeq(Wide(last'.val, B1 + in2_after_fee),
                       Wide(in2_after_fee, Q1))
            /\ (B1 = 10000000 /\ Q1 = 10000000 /\ last.args[2] = 100000
                   /\ last'.args[2] = 200000)
                 => /\ last.val = 98715
                    /\ last'.val = 191692
                    /\ WideLt(Wide(last'.val, last.args[2]),
                              Wide(last.val, last'.args[2]))
    ]_vars

\* on the pool of 1,000 STX and 10 USDT a buy of 358 returned 2 right after
\* a buy of 248 had returned 1
C26_Witness ==
  /\ IsOkCall(last, "buy-usdt")
  /\ last.args[2] = 358
  /\ last.val = 2
  /\ liquidity_pools[last.args[1]].stx_reserve = 1000 + 248 + 358
  /\ liquidity_pools[last.args[1]].usdt_reserve = 10 - 1 - 2

\* --------------------------------------------------------------- C27
\* usdt-deposited of the user's position on the pool, 0 without a position
UsdtDepositedBy(pool_id, user) ==
  IF MapHas(user_positions, <<pool_id, user>>)
  THEN user_positions[<<pool_id, user>>].usdt_deposited
  ELSE 0

RECURSIVE UsdtDepositedIn(_, _)
UsdtDepositedIn(pool_id, users) ==
  IF users = {} THEN 0
  ELSE LET u == CHOOSE x \in users : TRUE
       IN  UsdtDepositedBy(pool_id, u) + UsdtDepositedIn(pool_id, users \ {u})

\* C27: for every pool, usdt-reserve plus the usdt-deposited of all
\* positions on the pool is the initial-usdt the pool was created with.
C27_UsdtConserved ==
  \A p \in DOMAIN liquidity_pools :
     liquidity_pools[p].usdt_reserve + UsdtDepositedIn(p, Principals)
       = history.initial[p][2]

\* both users hold USDT of the pool and one of them has sold some back
C27_Witness ==
  /\ IsOkCall(last, "sell-usdt")
  /\ \A u \in Users : UsdtDepositedBy(last.args[1], u) > 0
  /\ liquidity_pools[last.args[1]].usdt_reserve < history.initial[last.args[1]][2]

\* --------------------------------------------------------------- C28
RECURSIVE StxReserveOf(_, _)
StxReserveOf(pools, ids) ==
  IF ids = {} THEN 0
  ELSE LET p == CHOOSE x \in ids : TRUE
       IN  pools[p].stx_reserve + StxReserveOf(pools, ids \ {p})

\* C28: the STX held by the contract is at least the sum of stx-reserve
\* over all pools.
C28_CustodyCoversReserves ==
  stx_balance[Contract] >= StxReserveOf(liquidity_pools, DOMAIN liquidity_pools)

\* --------------------------------------------------------------- C29
\* the zone-statistics keys of the pool
ZoneKeysOf(stats, pool_id) == { k \in DOMAIN stats : k[1] = pool_id }

RECURSIVE ZoneTradesOf(_, _)
ZoneTradesOf(stats, keys) ==
  IF keys = {} THEN 0
  ELSE LET k == CHOOSE x \in keys : TRUE
       IN  stats[k].total_buys + stats[k].total_sells
             + ZoneTradesOf(stats, keys \ {k})

RECURSIVE ZoneVolumeOf(_, _)
ZoneVolumeOf(stats, keys) ==
  IF keys = {} THEN 0
  ELSE LET k == CHOOSE x \in keys : TRUE
       IN  stats[k].volume + ZoneVolumeOf(stats, keys \ {k})

CountersMatchZones ==
  \A p \in DOMAIN liquidity_pools :
     /\ liquidity_pools[p].total_transactions
          = ZoneTradesOf(zone_statistics, ZoneKeysOf(zone_statistics, p))
     /\ liquidity_pools[p].total_volume
          = ZoneVolumeOf(zone_statistics, ZoneKeysOf(zone_statistics, p))

CountersStep ==
  IF IsOkTrade(last')
  THEN LET p == last'.args[1] IN
       /\ liquidity_pools'[p].total_transactions
            = liquidity_pools[p].total_transactions + 1
       /\ liquidity_pools'[p].total_volume
            = liquidity_pools[p].total_volume + last'.args[2]
  ELSE \A p \in DOMAIN liquidity_pools :
       /\ liquidity_pools'[p].total_transactions
            = liquidity_pools[p].total_transactions
       /\ liquidity_pools'[p].total_volume = liquidity_pools[p].total_volume

\* C29: for every pool total-transactions is the sum over its zones of
\* total-buys + total-sells and total-volume is the sum over its zones of
\* volume; a successful trade raises total-transactions by 1 and total-volume
\* by its input amount, and every other call, failed calls and claims
\* included, changes neither.
C29_CountersConsistent ==
  [] CountersMatchZones /\ [][ CountersStep ]_vars

\* a sell has followed a buy on the pool, both counted in its statistics
C29_Witness ==
  /\ IsOkCall(last, "sell-usdt")
  /\ liquidity_pools[last.args[1]].total_transactions = 2
  /\ StatsOf(zone_statistics, last.args[1], 0).total_buys = 1
  /\ StatsOf(zone_statistics, last.args[1], 0).total_sells = 1
  /\ liquidity_pools[last.args[1]].total_volume > last.args[2]

\* --------------------------------------------------------------- C30
TokenUntouched == UNCHANGED tokenState

\* C30: request-faucet succeeds exactly when can-claim-faucet of the caller
\* is true, that is when the height less the caller's last successful claim
\* height (0 if none) is at least 144. A success mints 10,000,000 to the
\* caller, adds as much to the supply and records the height, and comes at
\* least 144 blocks after the caller's previous success; a failure is
\* err-faucet-cooldown and leaves balances, supply and claim heights as
\* they were. No other call changes the recorded claim heights.
C30_FaucetCooldown ==
  [][ IF last'.op = "request-faucet"
      THEN LET u == last'.sender
               h == stacks_block_height
           IN
           /\ last'.ok <=> can_claim_faucet(u)
           /\ last'.ok <=> (h - last_claim_of(faucet_claims, u) >= 144)
           /\ last'.ok =>
                 /\ last'.val = 10000000
                 /\ ft_balance' = [ft_balance EXCEPT ![u] = @ + 10000000]
                 /\ ft_supply'.micro \in 0 .. token_unit - 1
                 /\ (ft_supply'.tokens - ft_supply.tokens) * token_unit
                      + (ft_supply'.micro - ft_supply.micro) = 10000000
                 /\ faucet_claims' = MapSet(faucet_claims, u, h)
                 /\ MapHas(faucet_claims, u) => h - faucet_claims[u] >= 144
           /\ ~ last'.ok =>
                 /\ last'.val = err_faucet_cooldown
                 /\ TokenUntouched
      ELSE faucet_claims' = faucet_claims ]_vars

\* a user's second successful request, exactly 144 blocks after the first:
\* the faucet has minted twice and the other user never claimed
C30_Witness ==
  /\ IsOkCall(last, "request-faucet")
  /\ DOMAIN faucet_claims = {last.sender}
  /\ faucet_claims[last.sender] = 2 * faucet_cooldown
  /\ ft_supply.tokens = initial_supply.tokens + 20

=============================================================================
